---------------------------- MODULE Spec2Model ----------------------------
(***************************************************************************)
(* A model of src/main.rs: the intent parser (parse_input), the Inventory  *)
(* and Flags containers, the two location handlers (test_room, room_a) and *)
(* the dispatch loop of main.                                              *)
(*                                                                         *)
(* Text that the program inspects character by character (a line of input, *)
(* a token, an intent's payload) is a sequence of one-character strings:   *)
(* <<"n", "o", "r", "t", "h">>.  Identifiers that the program only         *)
(* compares for equality (room identifiers, flag names, item names and     *)
(* descriptions) are TLA+ strings.                                         *)
(***************************************************************************)
EXTENDS Integers, Sequences, FiniteSets, TLC

VARIABLES
    room,    \* main: the current location identifier
    inv,     \* Inventory.items: a sequence of <<name, description>>
    flags,   \* Flags.flags: a function from the inserted flag names to BOOLEAN
    status,  \* "running", or "exit0" / "exit1" after process::exit
    turns,   \* number of handler invocations made by the loop of main
    line,    \* the text last handed to parse_input
    intent,  \* the ParsedInput last returned by parse_input
    call,    \* the last direct call on a container and the content before it
    out      \* the inventory listing printed by the last handler invocation

vars == <<room, inv, flags, status, turns, line, intent, call, out>>

---------------------------------------------------------------------------
(* Bounds of the model.                                                    *)

\* Tokens after the leading one in an enumerated line.
MaxTail == 4
\* Characters of an enumerated line that holds whitespace only.
MaxBlank == 3
\* Handler invocations explored by the dispatch loop.
MaxTurns == 6
\* Entries an Inventory holds when add and remove are called directly.
MaxItems == 3

---------------------------------------------------------------------------
(* Text.                                                                   *)

\* char::is_whitespace, restricted to the characters the enumerated lines use.
WhiteSpace == {" ", "\t", "\n", "\r"}

\* is_whitespace that knows the space character only.
is_whitespace_space_only(c) == c = " "

is_whitespace(c) == c \in WhiteSpace

\* str::split_whitespace: the maximal runs of non-whitespace characters.
RECURSIVE split_from(_, _, _, _)
split_from(s, i, cur, acc) ==
    IF i > Len(s)
    THEN IF cur = <<>> THEN acc ELSE Append(acc, cur)
    ELSE IF is_whitespace(s[i])
         THEN split_from(s, i + 1, <<>>, IF cur = <<>> THEN acc ELSE Append(acc, cur))
         ELSE split_from(s, i + 1, Append(cur, s[i]), acc)

split_whitespace(s) == split_from(s, 1, <<>>, <<>>)

\* A join that puts the separator after every token, the last included.
RECURSIVE join_trailing(_, _)
join_trailing(tokens, sep) ==
    IF tokens = <<>> THEN <<>>
    ELSE tokens[1] \o sep \o join_trailing(Tail(tokens), sep)

\* [&str]::join(" "): the tokens with one separator between neighbours.
RECURSIVE join(_, _)
join(tokens, sep) ==
    IF tokens = <<>> THEN <<>>
    ELSE IF Len(tokens) = 1 THEN tokens[1]
    ELSE tokens[1] \o sep \o join(Tail(tokens), sep)

\* The tokens from position i on (a slice pattern's `rest @ ..`).
rest_from(tokens, i) == SubSeq(tokens, i, Len(tokens))

\* str::contains: needle occurs as a contiguous run of characters.
contains(text, needle) ==
    \E i \in 0..(Len(text) - Len(needle)) :
        SubSeq(text, i + 1, i + Len(needle)) = needle

---------------------------------------------------------------------------
(* The words of the grammar.                                               *)

\* The north words with the upper-case spelling accepted too.
NorthWords_folded ==
    {<<"n">>, <<"N">>, <<"n","o","r","t","h">>, <<"N","o","r","t","h">>,
     <<"N","O","R","T","H">>}

\* The get words without grab.
GetWords_no_grab == {<<"g","e","t">>, <<"t","a","k","e">>}

NorthWords == {<<"n">>, <<"N">>, <<"n","o","r","t","h">>, <<"N","o","r","t","h">>}
SouthWords == {<<"s">>, <<"S">>, <<"s","o","u","t","h">>, <<"S","o","u","t","h">>}
EastWords  == {<<"e">>, <<"E">>, <<"e","a","s","t">>, <<"E","a","s","t">>}
WestWords  == {<<"w">>, <<"W">>, <<"w","e","s","t">>, <<"W","e","s","t">>}
UpWords    == {<<"u">>, <<"U">>, <<"u","p">>, <<"U","p">>}
DownWords  == {<<"d">>, <<"D">>, <<"d","o","w","n">>, <<"D","o","w","n">>}
InvWords   == {<<"i">>, <<"I">>, <<"i","n","v">>}
QuitWords  == {<<"q">>, <<"Q">>, <<"q","u","i","t">>, <<"Q","u","i","t">>}
GetWords   == {<<"g","e","t">>, <<"t","a","k","e">>, <<"g","r","a","b">>}
w_look  == <<"l","o","o","k">>
w_at    == <<"a","t">>
w_talk  == <<"t","a","l","k">>
w_to    == <<"t","o">>
w_key   == <<"k","e","y">>
w_chest == <<"c","h","e","s","t">>
w_open  == <<"o","p","e","n">>

---------------------------------------------------------------------------
(* ParsedInput.  Every variant is a record of the same shape; a variant    *)
(* without a payload carries empty text.                                   *)

PI(kind, s, t) == [kind |-> kind, s |-> s, t |-> t]

Quit        == PI("Quit", <<>>, <<>>)
Inv         == PI("Inv", <<>>, <<>>)
North       == PI("North", <<>>, <<>>)
South       == PI("South", <<>>, <<>>)
East        == PI("East", <<>>, <<>>)
West        == PI("West", <<>>, <<>>)
Down        == PI("Down", <<>>, <<>>)
Up          == PI("Up", <<>>, <<>>)
Look(s)     == PI("Look", s, <<>>)
Get(s)      == PI("Get", s, <<>>)
Use(s)      == PI("Use", s, <<>>)
UseOn(s, t) == PI("UseOn", s, t)
Talk(s)     == PI("Talk", s, <<>>)
Other(s)    == PI("Other", s, <<>>)

ParsedInputKinds ==
    {"Quit", "Inv", "Look", "Get", "Use", "UseOn", "Talk",
     "North", "South", "East", "West", "Down", "Up", "Other"}

\* The value of `intent` before any line was parsed.
NoIntent == PI("none", <<>>, <<>>)

---------------------------------------------------------------------------
(* The two regular expressions of the catch-all arm.                       *)

\* `.` matches every character but the line feed.
dot_star(text) == \A i \in 1..Len(text) : text[i] # "\n"

\* ^[uU]se
use_prefix(text) ==
    /\ Len(text) >= 3
    /\ text[1] \in {"u", "U"}
    /\ text[2] = "s"
    /\ text[3] = "e"

\* The lengths \s+ can take right after the prefix.
RECURSIVE space_run(_, _)
space_run(text, i) ==
    IF i <= Len(text) /\ is_whitespace(text[i]) THEN 1 + space_run(text, i + 1) ELSE 0

MaxOf(S) == CHOOSE x \in S : \A y \in S : y <= x

NoCaptures == [some |-> FALSE, g1 |-> <<>>, g2 |-> <<>>]

\* use_regex written with \s* : the space after the prefix is optional.
use_regex_star(text) ==
    IF ~use_prefix(text) THEN NoCaptures
    ELSE LET js == {j \in 0..space_run(text, 4) :
                        dot_star(SubSeq(text, 4 + j, Len(text)))}
         IN  IF js = {} THEN NoCaptures
             ELSE [some |-> TRUE,
                   g1   |-> SubSeq(text, 4 + MaxOf(js), Len(text)),
                   g2   |-> <<>>]

\* Regex::captures for ^[uU]se\s+(.*)$ : \s+ is greedy.
use_regex(text) ==
    IF ~use_prefix(text) THEN NoCaptures
    ELSE LET js == {j \in 1..space_run(text, 4) :
                        dot_star(SubSeq(text, 4 + j, Len(text)))}
         IN  IF js = {} THEN NoCaptures
             ELSE [some |-> TRUE,
                   g1   |-> SubSeq(text, 4 + MaxOf(js), Len(text)),
                   g2   |-> <<>>]

\* The positions where the literal " on " starts, leaving \s+ j characters.
on_starts(text, j) ==
    {p \in (4 + j)..(Len(text) - 3) :
        /\ SubSeq(text, p, p + 3) = <<" ", "o", "n", " ">>
        /\ dot_star(SubSeq(text, 4 + j, p - 1))
        /\ dot_star(SubSeq(text, p + 4, Len(text)))}

\* Regex::captures for ^[uU]se\s+(.*) on (.*)$ : \s+ and the first group are
\* greedy, so the longest run of spaces and then the last " on " win.
use_on_regex(text) ==
    IF ~use_prefix(text) THEN NoCaptures
    ELSE LET js == {j \in 1..space_run(text, 4) : on_starts(text, j) # {}}
         IN  IF js = {} THEN NoCaptures
             ELSE LET j == MaxOf(js)
                      p == MaxOf(on_starts(text, j))
                  IN  [some |-> TRUE,
                       g1   |-> SubSeq(text, 4 + j, p - 1),
                       g2   |-> SubSeq(text, p + 4, Len(text))]

\* catch_all trying the single-object pattern before the two-object one.
catch_all_use_first(all) ==
    LET joined == join(all, <<" ">>)
        two    == use_on_regex(joined)
        one    == use_regex(joined)
    IN  IF one.some THEN Use(one.g1)
        ELSE IF two.some THEN UseOn(two.g1, two.g2)
        ELSE Other(joined)

\* catch_all whose fallback joins the tokens with nothing between them.
catch_all_no_space(all) ==
    LET joined == join(all, <<" ">>)
        two    == use_on_regex(joined)
        one    == use_regex(joined)
    IN  IF two.some THEN UseOn(two.g1, two.g2)
        ELSE IF one.some THEN Use(one.g1)
        ELSE Other(join(all, <<>>))

\* The `all => { ... }` arm of parse_input.
catch_all(all) ==
    LET joined == join(all, <<" ">>)
        two    == use_on_regex(joined)
        one    == use_regex(joined)
    IN  IF two.some THEN UseOn(two.g1, two.g2)
        ELSE IF one.some THEN Use(one.g1)
        ELSE Other(joined)

\* parse_input: the arms of the match in their order.
parse_input(s) ==
    LET all == split_whitespace(s)
        n   == Len(all)
    IN  IF n = 1 /\ all[1] \in NorthWords THEN North
        ELSE IF n = 1 /\ all[1] \in SouthWords THEN South
        ELSE IF n = 1 /\ all[1] \in EastWords THEN East
        ELSE IF n = 1 /\ all[1] \in WestWords THEN West
        ELSE IF n = 1 /\ all[1] \in UpWords THEN Up
        ELSE IF n = 1 /\ all[1] \in DownWords THEN Down
        ELSE IF n = 1 /\ all[1] \in InvWords THEN Inv
        ELSE IF n = 1 /\ all[1] \in QuitWords THEN Quit
        ELSE IF n >= 1 /\ all[1] \in GetWords THEN Get(join(rest_from(all, 2), <<" ">>))
        ELSE IF n >= 2 /\ all[1] = w_look /\ all[2] = w_at
             THEN Look(join(rest_from(all, 3), <<" ">>))
        ELSE IF n >= 1 /\ all[1] = w_look THEN Look(join(rest_from(all, 2), <<" ">>))
        ELSE IF n >= 2 /\ all[1] = w_talk /\ all[2] = w_to
             THEN Talk(join(rest_from(all, 3), <<" ">>))
        ELSE IF n >= 1 /\ all[1] = w_talk THEN Talk(join(rest_from(all, 2), <<" ">>))
        ELSE catch_all(all)

---------------------------------------------------------------------------
(* The lines of input that are enumerated: a head, up to MaxTail further   *)
(* tokens, laid out with the whitespace a terminal line can carry.         *)

SingleWords ==
    NorthWords \cup SouthWords \cup EastWords \cup WestWords \cup UpWords
    \cup DownWords \cup InvWords \cup QuitWords \cup
    {<<"N","O","R","T","H">>, <<"n","o">>, <<"S","O","U","T","H">>,
     <<"u","P">>, <<"I","n","v">>, <<"Q","U","I","T">>, <<"G","e","t">>,
     <<"o","n">>, w_key, <<"m","o","n","k","e","y">>}

Heads ==
    {<<<<"u","s","e">>>>, <<<<"U","s","e">>>>, <<<<"U","S","E">>>>,
     <<<<"u","s","e","d">>>>, <<<<"g","e","t">>>>, <<<<"t","a","k","e">>>>,
     <<<<"g","r","a","b">>>>, <<w_look>>, <<w_talk>>, <<w_open>>,
     <<<<"n">>>>}

TailWords == {<<"o","n">>, w_key, w_chest, w_at, w_to}

TailSeqs == UNION {[1..k -> TailWords] : k \in 0..MaxTail}

TokenSeqs ==
    {<<>>} \cup {<<w>> : w \in SingleWords}
           \cup {h \o t : h \in Heads, t \in TailSeqs}

\* Leading whitespace, separator and trailing whitespace of a line.
Layouts ==
    {[lead |-> <<>>, sep |-> <<" ">>, trail |-> <<>>],
     [lead |-> <<>>, sep |-> <<" ">>, trail |-> <<"\n">>],
     [lead |-> <<" ", "\t">>, sep |-> <<" ", " ">>, trail |-> <<" ", "\r", "\n">>]}

render(tokens, lay) == lay.lead \o join(tokens, lay.sep) \o lay.trail

\* The lines made of whitespace alone.
BlankLines == UNION {[1..k -> WhiteSpace] : k \in 0..MaxBlank}

Lines == {render(tokens, lay) : tokens \in TokenSeqs, lay \in Layouts} \cup BlankLines

---------------------------------------------------------------------------
(* The containers.                                                         *)

\* Flags::new
EmptyFlags == [f \in {} |-> FALSE]

\* is_set asking only whether the flag was inserted (contains_key).
is_set_defined(fl, flag) == flag \in DOMAIN fl

\* Flags::is_set: a flag that was never inserted reads as false.
is_set(fl, flag) == IF flag \in DOMAIN fl THEN fl[flag] ELSE FALSE

\* Flags::set_as: HashMap::insert, which overwrites.
set_as(fl, flag, val) ==
    [x \in (DOMAIN fl) \cup {flag} |-> IF x = flag THEN val ELSE fl[x]]

\* Flags::set
set(fl, flag) == set_as(fl, flag, TRUE)

\* Flags::print_if: what it prints, the message or nothing.
print_if(fl, flag, val, msg) == IF is_set(fl, flag) = val THEN <<msg>> ELSE <<>>

\* Inventory::new
EmptyInventory == <<>>

\* Inventory::add: Vec::push, with no look at what is there.
add(items, item, desc) == Append(items, <<item, desc>>)

\* The item names in lower case.
lower_case(name) == IF name = "Golden Key" THEN "golden key" ELSE name

\* find comparing the names without regard to case.
find_ignore_case(items, target_item) ==
    LET hits == {i \in 1..Len(items) :
                    lower_case(items[i][1]) = lower_case(target_item)}
    IN  IF hits = {} THEN [some |-> FALSE, i |-> 0]
        ELSE [some |-> TRUE, i |-> (CHOOSE i \in hits : \A k \in hits : i <= k) - 1]

\* Inventory::find: the first index (from 0) whose name is the target.
find(items, target_item) ==
    LET hits == {i \in 1..Len(items) : items[i][1] = target_item}
    IN  IF hits = {} THEN [some |-> FALSE, i |-> 0]
        ELSE [some |-> TRUE, i |-> (CHOOSE i \in hits : \A k \in hits : i <= k) - 1]

\* Inventory::has
has(items, target_item) == find(items, target_item).some

\* remove that drops the first entry when the name is not found.
remove_first_when_absent(items, item) ==
    IF find(items, item).some
    THEN SelectSeq(items, LAMBDA e : e[1] # item)
    ELSE IF items = <<>> THEN items ELSE Tail(items)

\* remove with the retain test inverted: the named entries are the ones kept.
remove_keeps_named(items, item) ==
    IF find(items, item).some
    THEN SelectSeq(items, LAMBDA e : e[1] = item)
    ELSE items

\* Inventory::remove: Vec::retain keeps the entries with another name.
remove(items, item) ==
    IF find(items, item).some
    THEN SelectSeq(items, LAMBDA e : e[1] # item)
    ELSE items

\* The value of `call` before any direct container call.
NoCall == [op |-> "none", name |-> "", val |-> FALSE, result |-> FALSE,
           before |-> <<>>,
           prev_op |-> "none", prev_name |-> "", prev_before |-> <<>>]

\* `call` after the container call op(name, val) made on the content
\* `before` and answering `result`.
CalledWith(op, name, val, result, before) ==
    [op |-> op, name |-> name, val |-> val, result |-> result, before |-> before,
     prev_op |-> call.op, prev_name |-> call.name, prev_before |-> call.before]

\* `call` after the container call op(name) made on the content `before`.
Called(op, name, before) == CalledWith(op, name, FALSE, FALSE, before)

---------------------------------------------------------------------------
(* The parser on its own: every enumerated line is handed to parse_input.  *)

ParseInit ==
    /\ line \in Lines
    /\ intent = NoIntent
    /\ room = "test_room"
    /\ inv = EmptyInventory
    /\ flags = EmptyFlags
    /\ status = "running"
    /\ turns = 0
    /\ call = NoCall
    /\ out = <<>>

ParseLine ==
    /\ intent = NoIntent
    /\ intent' = parse_input(line)
    /\ UNCHANGED <<room, inv, flags, status, turns, line, call, out>>

ParseNext == ParseLine

SpecParse == ParseInit /\ [][ParseNext]_vars

---------------------------------------------------------------------------
(* The Inventory on its own: add, remove and has called directly, from     *)
(* new().                                                                  *)

ItemNames == {"Golden Key", "Sword", "golden key"}
ItemDescs == {"A quaint key with an irresistable luster.",
              "You could do some damage with this."}

InvInit ==
    /\ inv = EmptyInventory
    /\ call = NoCall
    /\ room = "test_room"
    /\ flags = EmptyFlags
    /\ status = "running"
    /\ turns = 0
    /\ line = <<>>
    /\ intent = NoIntent
    /\ out = <<>>

InvAdd ==
    /\ Len(inv) < MaxItems
    /\ \E item \in ItemNames, desc \in ItemDescs :
          /\ inv' = add(inv, item, desc)
          /\ call' = Called("add", item, inv)
    /\ UNCHANGED <<room, flags, status, turns, line, intent, out>>

InvRemove ==
    /\ \E item \in ItemNames :
          /\ inv' = remove(inv, item)
          /\ call' = Called("remove", item, inv)
    /\ UNCHANGED <<room, flags, status, turns, line, intent, out>>

\* has takes &self: the items stay, the answer is recorded.
InvHas ==
    /\ \E item \in ItemNames :
          call' = CalledWith("has", item, FALSE, has(inv, item), inv)
    /\ UNCHANGED <<room, inv, flags, status, turns, line, intent, out>>

InvNext == InvAdd \/ InvRemove \/ InvHas

SpecInv == InvInit /\ [][InvNext]_vars

---------------------------------------------------------------------------
(* The Flags on their own: set, set_as, is_set and print_if called         *)
(* directly, from new().                                                   *)

FlagNames == {"test_room_got_golden_key", "room_a_opened_chest"}

FlagsInit ==
    /\ flags = EmptyFlags
    /\ call = NoCall
    /\ room = "test_room"
    /\ inv = EmptyInventory
    /\ status = "running"
    /\ turns = 0
    /\ line = <<>>
    /\ intent = NoIntent
    /\ out = <<>>

FlagsSet ==
    /\ \E flag \in FlagNames :
          /\ flags' = set(flags, flag)
          /\ call' = CalledWith("set", flag, TRUE, FALSE, flags)
    /\ UNCHANGED <<room, inv, status, turns, line, intent, out>>

FlagsSetAs ==
    /\ \E flag \in FlagNames, val \in BOOLEAN :
          /\ flags' = set_as(flags, flag, val)
          /\ call' = CalledWith("set_as", flag, val, FALSE, flags)
    /\ UNCHANGED <<room, inv, status, turns, line, intent, out>>

\* is_set takes &self: the map stays, the answer is recorded.
FlagsIsSet ==
    /\ \E flag \in FlagNames :
          call' = CalledWith("is_set", flag, FALSE, is_set(flags, flag), flags)
    /\ UNCHANGED <<room, inv, flags, status, turns, line, intent, out>>

\* print_if takes &self: the map stays, whether it printed is recorded.
FlagsPrintIf ==
    /\ \E flag \in FlagNames, val \in BOOLEAN :
          call' = CalledWith("print_if", flag, val,
                             print_if(flags, flag, val, "msg") # <<>>, flags)
    /\ UNCHANGED <<room, inv, flags, status, turns, line, intent, out>>

FlagsNext == FlagsSet \/ FlagsSetAs \/ FlagsIsSet \/ FlagsPrintIf

SpecFlags == FlagsInit /\ [][FlagsNext]_vars

---------------------------------------------------------------------------
(* The game: main, dispatching to test_room and room_a.                    *)

\* The result of one handler invocation: the identifier it returns (the
\* current one when it exits instead), the containers, the exit status and
\* the inventory listing it printed.
Returned(next, items, fl) ==
    [room |-> next, inv |-> items, flags |-> fl, status |-> "running",
     out |-> <<>>]

\* An exit that does not end the process: the handler returns `here`.
Exited_returns(code, here, items, fl) ==
    [room |-> here, inv |-> items, flags |-> fl, status |-> "running",
     out |-> <<>>]

\* process::exit(code) inside the handler at location `here`.
Exited(code, here, items, fl) ==
    [room |-> here, inv |-> items, flags |-> fl,
     status |-> IF code = 0 THEN "exit0" ELSE "exit1", out |-> <<>>]

\* format!("{: <10}", text): text padded on the right to ten characters.
RECURSIVE pad_left_aligned(_, _)
pad_left_aligned(text, width) ==
    IF Len(text) >= width THEN text ELSE pad_left_aligned(text \o " ", width)

\* One row of the listing: "{: <10} | {: <10}".
fmt_row(entry) ==
    pad_left_aligned(entry[1], 10) \o " | " \o pad_left_aligned(entry[2], 10)

\* impl fmt::Display for Inventory: the lines of the listing.
fmt(items) ==
    <<"--- INVENTORY ---">> \o [i \in 1..Len(items) |-> fmt_row(items[i])]
        \o <<"------------------">>

\* println!("{}", inv) before the handler yields r.
Printed(items, r) == [r EXCEPT !.out = fmt(items)]

\* test_room whose Get arm adds the key without setting the flag.
test_room_forgets_flag(items, fl, p) ==
    IF p.kind = "North" THEN Returned("room_a", items, fl)
    ELSE IF p.kind = "Look" THEN Returned("test_room", items, fl)
    ELSE IF p.kind = "Inv" THEN Printed(items, Returned("test_room", items, fl))
    ELSE IF p.kind = "Quit" THEN Exited(0, "test_room", items, fl)
    ELSE IF p.kind = "Get"
         THEN IF contains(p.s, w_key)
              THEN Returned("test_room",
                            add(items, "Golden Key",
                                "A quaint key with an irresistable luster."),
                            fl)
              ELSE Returned("test_room", items, fl)
    ELSE Returned("test_room", items, fl)

\* test_room, from the value of get_user_input on.
test_room(items, fl, p) ==
    IF p.kind = "North" THEN Returned("room_a", items, fl)
    ELSE IF p.kind = "Look" THEN Returned("test_room", items, fl)
    ELSE IF p.kind = "Inv" THEN Printed(items, Returned("test_room", items, fl))
    ELSE IF p.kind = "Quit" THEN Exited(0, "test_room", items, fl)
    ELSE IF p.kind = "Get"
         THEN IF contains(p.s, w_key)
              THEN Returned("test_room",
                            add(items, "Golden Key",
                                "A quaint key with an irresistable luster."),
                            set(fl, "test_room_got_golden_key"))
              ELSE Returned("test_room", items, fl)
    ELSE Returned("test_room", items, fl)

\* open_chest that takes the key and gives the sword without recording that
\* the chest was opened.
open_chest_forgets_flag(items, fl) ==
    IF ~is_set(fl, "room_a_opened_chest") /\ has(items, "Golden Key")
    THEN [inv   |-> add(remove(items, "Golden Key"), "Sword",
                        "You could do some damage with this."),
          flags |-> fl]
    ELSE [inv |-> items, flags |-> fl]

\* room_a::open_chest
open_chest(items, fl) ==
    IF ~is_set(fl, "room_a_opened_chest")
    THEN IF has(items, "Golden Key")
         THEN [inv   |-> add(remove(items, "Golden Key"), "Sword",
                             "You could do some damage with this."),
               flags |-> set(fl, "room_a_opened_chest")]
         ELSE [inv |-> items, flags |-> fl]
    ELSE [inv |-> items, flags |-> fl]

\* A room_a arm that calls open_chest and then yields "room_a".
chest_arm(items, fl) ==
    LET c == open_chest(items, fl) IN Returned("room_a", c.inv, c.flags)

\* room_a with the Other arm asking for "open" or "chest" instead of both.
room_a_open_or_chest(items, fl, p) ==
    IF p.kind = "South" THEN Returned("test_room", items, fl)
    ELSE IF p.kind = "Look" THEN Returned("room_a", items, fl)
    ELSE IF p.kind = "Inv" THEN Printed(items, Returned("room_a", items, fl))
    ELSE IF p.kind = "Quit" THEN Exited(0, "room_a", items, fl)
    ELSE IF p.kind = "Use"
         THEN IF contains(p.s, w_key)
              THEN chest_arm(items, fl) ELSE Returned("room_a", items, fl)
    ELSE IF p.kind = "UseOn"
         THEN IF contains(p.s, w_key) /\ contains(p.t, w_chest)
              THEN chest_arm(items, fl) ELSE Returned("room_a", items, fl)
    ELSE IF p.kind = "Other"
         THEN IF contains(p.s, w_open) \/ contains(p.s, w_chest)
              THEN chest_arm(items, fl) ELSE Returned("room_a", items, fl)
    ELSE Returned("room_a", items, fl)

\* room_a with North leading out of the room as South does.
room_a_north_leaves(items, fl, p) ==
    IF p.kind \in {"South", "North"} THEN Returned("test_room", items, fl)
    ELSE IF p.kind = "Look" THEN Returned("room_a", items, fl)
    ELSE IF p.kind = "Inv" THEN Printed(items, Returned("room_a", items, fl))
    ELSE IF p.kind = "Quit" THEN Exited(0, "room_a", items, fl)
    ELSE IF p.kind = "Use"
         THEN IF contains(p.s, w_key)
              THEN chest_arm(items, fl) ELSE Returned("room_a", items, fl)
    ELSE IF p.kind = "UseOn"
         THEN IF contains(p.s, w_key) /\ contains(p.t, w_chest)
              THEN chest_arm(items, fl) ELSE Returned("room_a", items, fl)
    ELSE IF p.kind = "Other"
         THEN IF contains(p.s, w_open) /\ contains(p.s, w_chest)
              THEN chest_arm(items, fl) ELSE Returned("room_a", items, fl)
    ELSE Returned("room_a", items, fl)

\* room_a, from the value of get_user_input on.
room_a(items, fl, p) ==
    IF p.kind = "South" THEN Returned("test_room", items, fl)
    ELSE IF p.kind = "Look" THEN Returned("room_a", items, fl)
    ELSE IF p.kind = "Inv" THEN Printed(items, Returned("room_a", items, fl))
    ELSE IF p.kind = "Quit" THEN Exited(0, "room_a", items, fl)
    ELSE IF p.kind = "Use"
         THEN IF contains(p.s, w_key)
              THEN chest_arm(items, fl) ELSE Returned("room_a", items, fl)
    ELSE IF p.kind = "UseOn"
         THEN IF contains(p.s, w_key) /\ contains(p.t, w_chest)
              THEN chest_arm(items, fl) ELSE Returned("room_a", items, fl)
    ELSE IF p.kind = "Other"
         THEN IF contains(p.s, w_open) /\ contains(p.s, w_chest)
              THEN chest_arm(items, fl) ELSE Returned("room_a", items, fl)
    ELSE Returned("room_a", items, fl)

\* The token sequences of the lines typed in the game.
GameTokens ==
    {<<>>, <<<<"n">>>>, <<<<"N","o","r","t","h">>>>, <<<<"s">>>>,
     <<<<"s","o","u","t","h">>>>, <<<<"e">>>>, <<<<"u","p">>>>,
     <<<<"i">>>>, <<<<"q">>>>, <<<<"Q","u","i","t">>>>,
     <<w_look>>, <<w_look, w_at, w_chest>>, <<w_talk, w_to, w_key>>,
     <<<<"g","e","t">>>>, <<<<"g","e","t">>, w_key>>,
     <<<<"t","a","k","e">>, <<"m","o","n","k","e","y">>>>,
     <<<<"g","r","a","b">>, w_chest>>,
     <<<<"u","s","e">>>>, <<<<"u","s","e">>, w_key>>, <<<<"U","s","e">>, w_chest>>,
     <<<<"u","s","e">>, w_key, <<"o","n">>, w_chest>>,
     <<<<"u","s","e">>, w_chest, <<"o","n">>, w_key>>,
     <<<<"u","s","e">>, w_key, <<"o","n">>, w_key>>,
     <<w_open>>, <<w_open, w_chest>>, <<w_chest, w_open>>, <<w_open, w_key>>,
     <<<<"u","n","c","h","e","s","t">>>>, <<w_key>>}

\* What read_line leaves in `line` when the input ends, or the read fails,
\* before a line feed arrived: the characters read until then, possibly
\* none.  get_user_input drops read_line's Result and parses them.
UnterminatedLines ==
    {render(tokens, [lead |-> <<>>, sep |-> <<" ">>, trail |-> <<>>]) :
        tokens \in {<<>>, <<<<"n">>>>, <<<<"q">>>>, <<<<"g","e","t">>, w_key>>,
                    <<<<"u","s","e">>, w_key>>, <<w_look>>}}

\* A line as read_line delivers it: the text typed and the line feed, or
\* what was read when the input ended or failed.
GameLines ==
    {render(tokens, [lead |-> <<>>, sep |-> <<" ">>, trail |-> <<"\n">>]) :
        tokens \in GameTokens} \cup UnterminatedLines

\* get_user_input: the line read, parsed.
get_user_input(l) == parse_input(l)

\* main before the loop.
Init ==
    /\ inv = EmptyInventory
    /\ flags = EmptyFlags
    /\ room = "test_room"
    /\ status = "running"
    /\ turns = 0
    /\ line = <<>>
    /\ intent = NoIntent
    /\ call = NoCall
    /\ out = <<>>

\* One iteration of the loop of main: the line l is read and the handler's
\* result r replaces the state.
Iterate(l, r) ==
    /\ line' = l
    /\ intent' = get_user_input(l)
    /\ room' = r.room
    /\ inv' = r.inv
    /\ flags' = r.flags
    /\ status' = r.status
    /\ turns' = turns + 1
    /\ out' = r.out
    /\ UNCHANGED call

\* rooms.get(&room) finds test_room.
TestRoomTurn ==
    /\ status = "running"
    /\ turns < MaxTurns
    /\ room = "test_room"
    /\ \E l \in GameLines : Iterate(l, test_room(inv, flags, get_user_input(l)))

\* rooms.get(&room) finds room_a.
RoomATurn ==
    /\ status = "running"
    /\ turns < MaxTurns
    /\ room = "room_a"
    /\ \E l \in GameLines : Iterate(l, room_a(inv, flags, get_user_input(l)))

Next == TestRoomTurn \/ RoomATurn

Spec == Init /\ [][Next]_vars

---------------------------------------------------------------------------
(* The dispatch loop with the current identifier forced: main's lookup in  *)
(* the registry, with dead_room for an identifier that is not in it.       *)

\* The registry with room_a left out.
rooms_without_room_a == {"test_room"}

\* The keys of `rooms` once main has inserted the two handlers.
rooms == {"test_room", "room_a"}

\* dead_room with the exit status of a normal end.
dead_room_exit0(items, fl) == Exited(0, room, items, fl)

\* dead_room: prints and exits with status 1; `room` is never assigned.
dead_room(items, fl) == Exited(1, room, items, fl)

\* rooms.get(&room) finds nothing: dead_room runs, and reads no line.
DeadRoomTurn ==
    /\ status = "running"
    /\ room \notin rooms
    /\ LET r == dead_room(inv, flags)
       IN  /\ room' = r.room
           /\ inv' = r.inv
           /\ flags' = r.flags
           /\ status' = r.status
           /\ out' = r.out
    /\ turns' = turns + 1
    /\ UNCHANGED <<line, intent, call>>

\* The identifiers the loop is started with: the registered ones and some
\* that no handler is registered for.
ForcedRooms == rooms \cup {"room_b", "Test_Room", ""}

\* The containers the loop is started with: contents the game produces.
ForcedContents ==
    {[inv |-> EmptyInventory, flags |-> EmptyFlags],
     [inv |-> add(EmptyInventory, "Golden Key",
                  "A quaint key with an irresistable luster."),
      flags |-> set(EmptyFlags, "test_room_got_golden_key")],
     [inv |-> add(EmptyInventory, "Sword", "You could do some damage with this."),
      flags |-> set(set(EmptyFlags, "test_room_got_golden_key"),
                    "room_a_opened_chest")]}

ForcedInit ==
    /\ room \in ForcedRooms
    /\ \E c \in ForcedContents : inv = c.inv /\ flags = c.flags
    /\ status = "running"
    /\ turns = 0
    /\ line = <<>>
    /\ intent = NoIntent
    /\ call = NoCall
    /\ out = <<>>

ForcedNext == TestRoomTurn \/ RoomATurn \/ DeadRoomTurn

SpecForced == ForcedInit /\ [][ForcedNext]_vars

---------------------------------------------------------------------------
(* Vocabulary of the properties, written from the documentation and not    *)
(* from the definitions above.                                             *)

\* The characters that count as blank in a line.
BlankChars == {" ", "\t", "\n", "\r"}

\* The four accepted spellings of each direction.
DirectionSpellings ==
    [North |-> {<<"n">>, <<"N">>, <<"n","o","r","t","h">>, <<"N","o","r","t","h">>},
     South |-> {<<"s">>, <<"S">>, <<"s","o","u","t","h">>, <<"S","o","u","t","h">>},
     East  |-> {<<"e">>, <<"E">>, <<"e","a","s","t">>, <<"E","a","s","t">>},
     West  |-> {<<"w">>, <<"W">>, <<"w","e","s","t">>, <<"W","e","s","t">>},
     Up    |-> {<<"u">>, <<"U">>, <<"u","p">>, <<"U","p">>},
     Down  |-> {<<"d">>, <<"D">>, <<"d","o","w","n">>, <<"D","o","w","n">>}]

DirectionKinds == DOMAIN DirectionSpellings

MetaSpellings ==
    {<<"i">>, <<"I">>, <<"i","n","v">>,
     <<"q">>, <<"Q">>, <<"q","u","i","t">>, <<"Q","u","i","t">>}

GetVerbs  == {<<"g","e","t">>, <<"t","a","k","e">>, <<"g","r","a","b">>}
TailVerbs == GetVerbs \cup {<<"l","o","o","k">>, <<"t","a","l","k">>}
UseVerbs  == {<<"u","s","e">>, <<"U","s","e">>}
t_on      == <<"o","n">>

\* The whitespace-separated tokens of the line that was parsed.
Tokens == split_whitespace(line)

\* The tokens after the first.
TokenTail == SubSeq(Tokens, 2, Len(Tokens))

\* The positions of the token on that have a token before and after them
\* in a token sequence.
InnerOns(ts) == {i \in 2..(Len(ts) - 1) : ts[i] = t_on}

\* Tokens joined by single spaces.
Spaced(ts) == join(ts, <<" ">>)

\* The line has been parsed.
Parsed == intent # NoIntent

\* The line matches none of the grammar's rules.
NoRuleMatches ==
    /\ ~(Len(Tokens) = 1 /\ \E k \in DirectionKinds : Tokens[1] \in DirectionSpellings[k])
    /\ ~(Len(Tokens) = 1 /\ Tokens[1] \in MetaSpellings)
    /\ ~(Len(Tokens) >= 1 /\ Tokens[1] \in TailVerbs)
    /\ ~(Len(Tokens) >= 2 /\ Tokens[1] \in UseVerbs)

\* A value of the ParsedInput type: a known variant, with text only where
\* the variant carries text.
IsText(x) == \A i \in 1..Len(x) : x[i] \in STRING

WellFormedIntent(p) ==
    /\ p.kind \in ParsedInputKinds
    /\ DOMAIN p = {"kind", "s", "t"}
    /\ IsText(p.s) /\ IsText(p.t)
    /\ p.kind \notin {"Look", "Get", "Use", "UseOn", "Talk", "Other"} => p.s = <<>>
    /\ p.kind # "UseOn" => p.t = <<>>

\* Some entry of items has the name.
NamePresent(items, name) == \E i \in 1..Len(items) : items[i][1] = name

\* A handler was invoked in this step.
HandlerRan == turns' = turns + 1

---------------------------------------------------------------------------
(* The properties.                                                         *)

\* C1: in every state reachable from game start by any sequence of player
\* intents, Inventory holds at most one entry per distinct item name.
\* (Two Get turns with "key" in test_room push "Golden Key" twice.)
C1_UniqueItemNames ==
    \A i, j \in 1..Len(inv) : inv[i][1] = inv[j][1] => i = j

\* C2 as stated: for every Inventory content and every name, add(name, desc)
\* followed by remove(name) leaves the item sequence as it was before the add.
C2_AddRemoveRoundTrip ==
    (call.op = "remove" /\ call.prev_op = "add" /\ call.prev_name = call.name)
        => inv = call.prev_before

\* C2 as amended: for every Inventory content with no entry named name,
\* add(name, desc) followed by remove(name) leaves the item sequence exactly
\* as it was before the add (same entries, same order).
C2_AddRemoveRoundTripAbsent ==
    (/\ call.op = "remove" /\ call.prev_op = "add" /\ call.prev_name = call.name
     /\ ~NamePresent(call.prev_before, call.name))
        => inv = call.prev_before

\* C2 witness: a name absent from a non-empty Inventory was added and removed.
C2_RoundTripWitness ==
    /\ call.op = "remove" /\ call.prev_op = "add" /\ call.prev_name = call.name
    /\ ~NamePresent(call.prev_before, call.name)
    /\ Len(call.prev_before) >= 2
    /\ inv = call.prev_before

\* The Other turn that opens the chest: in room_a, the text has both "open"
\* and "chest", the chest flag is unset and a Golden Key is held.
OtherOpensChest(p) ==
    /\ room = "room_a"
    /\ contains(p.s, <<"o","p","e","n">>) /\ contains(p.s, <<"c","h","e","s","t">>)
    /\ ~("room_a_opened_chest" \in DOMAIN flags /\ flags["room_a_opened_chest"])
    /\ NamePresent(inv, "Golden Key")

\* C3 as stated: in every location a turn whose intent is Other(text) returns
\* the same location and leaves Inventory and Flags unchanged.
C3_OtherIsNoOp ==
    [][(HandlerRan /\ intent'.kind = "Other")
          => (room' = room /\ inv' = inv /\ flags' = flags)]_vars

\* C3 as amended: a turn whose intent is Other(text) returns the same
\* location and keeps the game running; it leaves Inventory and Flags
\* unchanged unless it happens in room_a with a text containing both "open"
\* and "chest" while the chest flag is unset and a Golden Key is held.
C3_OtherIsNoOpUnlessOpenChest ==
    [][(HandlerRan /\ intent'.kind = "Other")
          => /\ room' = room
             /\ status' = "running"
             /\ ~OtherOpensChest(intent') => (inv' = inv /\ flags' = flags)]_vars

\* C3 witness: in room_a, holding a Golden Key, an Other text with "open"
\* but without "chest" was typed and the key is still held.
C3_OtherWitness ==
    /\ intent.kind = "Other"
    /\ room = "room_a"
    /\ contains(intent.s, <<"o","p","e","n">>)
    /\ ~contains(intent.s, <<"c","h","e","s","t">>)
    /\ NamePresent(inv, "Golden Key")
    /\ ~NamePresent(inv, "Sword")

\* C4: parse_input returns a ParsedInput variant for every line, and a line
\* that matches no grammar rule yields Other carrying the tokens rejoined
\* with single spaces.
C4_ParseTotal ==
    Parsed => /\ WellFormedIntent(intent)
              /\ NoRuleMatches => intent = Other(Spaced(Tokens))

\* C4 witness: a line of several tokens, laid out with more than single
\* spaces, fell through to Other.
C4_OtherWitness ==
    /\ intent.kind = "Other"
    /\ Len(Tokens) >= 3
    /\ line # intent.s

\* C5 as stated: the direction intents come from the 24 listed texts and
\* from no other input text.
C5_DirectionsExactText ==
    Parsed =>
        \A k \in DirectionKinds :
            intent.kind = k <=> line \in DirectionSpellings[k]

\* C5 as amended: parse_input returns a direction intent exactly when the
\* whitespace-separated tokens of the input are a single token that is one
\* of the four listed spellings of that direction; whitespace around the
\* token (such as the line feed that ends a line) does not matter.
C5_DirectionsExactToken ==
    Parsed =>
        \A k \in DirectionKinds :
            intent.kind = k <=>
                (Len(Tokens) = 1 /\ Tokens[1] \in DirectionSpellings[k])

\* C5 witness: a spelling of South, surrounded by whitespace, gave South.
C5_DirectionWitness ==
    /\ intent = South
    /\ Len(line) > 5
    /\ line[Len(line)] = "\n"

\* C6: a line whose tokens are use (or Use), a non-empty A, on, a non-empty
\* B, with no on in A or B, parses to UseOn(A, B) and not to Use("A on B").
C6_UseOnBeforeUse ==
    (/\ Parsed
     /\ Len(Tokens) >= 4
     /\ Tokens[1] \in UseVerbs
     /\ Cardinality(InnerOns(TokenTail)) = 1
     /\ \A i \in 1..Len(TokenTail) : TokenTail[i] = t_on => i \in InnerOns(TokenTail))
        => LET i == CHOOSE i \in InnerOns(TokenTail) : TRUE
           IN  /\ intent = UseOn(Spaced(SubSeq(TokenTail, 1, i - 1)),
                                 Spaced(SubSeq(TokenTail, i + 1, Len(TokenTail))))
               /\ intent # Use(Spaced(TokenTail))

\* C6 witness: a use line with a two-token A parsed to UseOn.
C6_UseOnWitness ==
    /\ intent.kind = "UseOn"
    /\ Len(Tokens) = 5
    /\ Tokens[4] = t_on
    /\ Tokens[2] # t_on /\ Tokens[3] # t_on /\ Tokens[5] # t_on
    /\ Len(intent.s) > Len(Tokens[2])

\* C7: a line whose tokens are use (or Use) and a non-empty tail that is not
\* 'A on B' with non-empty A and B parses to Use(tail rejoined with single
\* spaces); the single token use parses to Other("use").
C7_UseSingleObject ==
    Parsed =>
        /\ (/\ Len(Tokens) >= 2
            /\ Tokens[1] \in UseVerbs
            /\ InnerOns(TokenTail) = {}) => intent = Use(Spaced(TokenTail))
        /\ Tokens = <<<<"u","s","e">>>> => intent = Other(<<"u","s","e">>)

\* C7 witness: a use line whose tail starts with on parsed to Use.
C7_UseWitness ==
    /\ intent.kind = "Use"
    /\ Len(Tokens) >= 3
    /\ Tokens[2] = t_on
    /\ intent.s = Spaced(TokenTail)

\* C8: for every token sequence T, the lines get T, take T and grab T parse
\* to Get(T rejoined with single spaces); an empty T gives Get with empty
\* text.
C8_GetVerbs ==
    (Parsed /\ Len(Tokens) >= 1 /\ Tokens[1] \in GetVerbs)
        => /\ intent = Get(Spaced(TokenTail))
           /\ Len(Tokens) = 1 => intent = Get(<<>>)

\* C8 witness: grab followed by two tokens parsed to Get of the two.
C8_GetWitness ==
    /\ intent.kind = "Get"
    /\ Len(Tokens) = 3
    /\ Tokens[1] = <<"g","r","a","b">>
    /\ intent.s = Tokens[2] \o <<" ">> \o Tokens[3]

\* C9: an input that is empty or holds whitespace only parses to Other with
\* empty text.
C9_BlankIsOther ==
    (Parsed /\ \A i \in 1..Len(line) : line[i] \in BlankChars)
        => intent = Other(<<>>)

\* C9 witness: a line of a tab and a line feed parsed to Other with empty text.
C9_BlankWitness ==
    /\ line = <<"\t", "\n">>
    /\ intent = Other(<<>>)

\* C10: a Quit turn ends the process with status 0 from inside the handler:
\* no location is returned (the current one stays), Inventory and Flags are
\* not mutated, no step follows an exit, and Quit on the first turn ends the
\* game after exactly one handler invocation.
C10_QuitExits ==
    /\ [][(HandlerRan /\ intent'.kind = "Quit")
             => (status' = "exit0" /\ room' = room /\ inv' = inv /\ flags' = flags)]_vars
    /\ [][status = "exit0" => UNCHANGED vars]_vars
    /\ []((turns = 1 /\ intent.kind = "Quit") => (status = "exit0" /\ room = "test_room"))
    /\ [](status = "exit0" => intent.kind = "Quit")

\* C10 witness: the game was quit in room_a while something was held.
C10_QuitWitness ==
    /\ status = "exit0"
    /\ intent.kind = "Quit"
    /\ room = "room_a"
    /\ Len(inv) > 0

\* The identifiers a handler is registered for.
KnownRooms == {"test_room", "room_a"}

\* C11: whenever the loop's current identifier is absent from the registry,
\* the next iteration is dead_room: it can run, and the only step possible
\* ends the process with status 1 without reading a line and without
\* touching Inventory or Flags; nothing follows that exit.
C11_DeadRoomExits ==
    /\ []((status = "running" /\ room \notin KnownRooms) => ENABLED DeadRoomTurn)
    /\ [][(status = "running" /\ room \notin KnownRooms)
             => /\ status' = "exit1"
                /\ turns' = turns + 1
                /\ line' = line /\ intent' = intent
                /\ room' = room /\ inv' = inv /\ flags' = flags]_vars
    /\ [][status = "exit1" => UNCHANGED vars]_vars

\* C11 witness: the loop started at an unregistered identifier with an item
\* held and ended with status 1 after one invocation.
C11_DeadRoomWitness ==
    /\ status = "exit1"
    /\ room = "room_b"
    /\ turns = 1
    /\ Len(inv) = 1
    /\ intent = NoIntent

\* C12: is_set is false for a flag never set; after set(f), is_set(f) is
\* true; set(f) called twice leaves the state of calling it once; a flag
\* stored as false reads through is_set like a flag never set; is_set and
\* print_if never change the flag map.
C12_FlagsAlgebra ==
    /\ (call.op = "is_set" /\ call.name \notin DOMAIN call.before) => ~call.result
    /\ (call.op = "is_set" /\ call.prev_op = "set" /\ call.prev_name = call.name)
          => call.result
    /\ (call.op = "set" /\ call.prev_op = "set" /\ call.prev_name = call.name)
          => flags = call.before
    /\ (/\ call.op = "is_set"
        /\ call.name \in DOMAIN call.before
        /\ call.before[call.name] = FALSE) => ~call.result
    /\ call.op \in {"is_set", "print_if"} => flags = call.before

\* C12 witness: a flag was set, then stored as false, and is_set answered
\* false.
C12_FlagsWitness ==
    /\ call.op = "is_set"
    /\ call.prev_op = "set_as"
    /\ call.prev_name = call.name
    /\ call.name \in DOMAIN flags
    /\ call.name \in DOMAIN call.prev_before
    /\ call.prev_before[call.name] = TRUE
    /\ flags[call.name] = FALSE
    /\ ~call.result

\* C13: for every Inventory content and every name not present in it,
\* remove(name) leaves the item sequence unchanged.
C13_RemoveAbsentIsNoOp ==
    (call.op = "remove" /\ ~NamePresent(call.before, call.name))
        => inv = call.before

\* C13 witness: "golden key" was removed from an Inventory of two entries
\* that holds a "Golden Key", and both entries are still there.
C13_RemoveAbsentWitness ==
    /\ call.op = "remove"
    /\ call.name = "golden key"
    /\ NamePresent(call.before, "Golden Key")
    /\ ~NamePresent(call.before, "golden key")
    /\ Len(call.before) = 2
    /\ inv = call.before

\* C14: after any sequence of add and remove calls, has(name) is true if
\* and only if some entry has exactly that name, and has leaves the item
\* sequence as it is.
C14_HasIffPresent ==
    call.op = "has"
        => /\ call.result <=> NamePresent(call.before, call.name)
           /\ inv = call.before

\* C14 witness: has("golden key") answered false on an Inventory holding a
\* "Golden Key", after an add and a remove.
C14_HasWitness ==
    /\ call.op = "has"
    /\ call.prev_op = "remove"
    /\ call.name = "golden key"
    /\ NamePresent(inv, "Golden Key")
    /\ ~call.result

\* The flag is stored as true.
FlagOn(fl, flag) == flag \in DOMAIN fl /\ fl[flag]

\* The row of the listing for the golden key.
GoldenKeyRow == "Golden Key | A quaint key with an irresistable luster."

\* The listing has the row.
Lists(listing, row) == \E i \in 1..Len(listing) : listing[i] = row

\* C15: in test_room a Get turn whose target contains "key" adds an entry
\* named "Golden Key", sets flag test_room_got_golden_key and stays in
\* test_room; a Get whose target does not contain "key" changes nothing; a
\* ShowInventory turn while the key is held prints a listing with the
\* Golden Key row and leaves Inventory and Flags unchanged.
C15_GetKeyThenInventory ==
    /\ [][(/\ HandlerRan /\ room = "test_room" /\ intent'.kind = "Get"
           /\ contains(intent'.s, <<"k","e","y">>))
             => /\ Len(inv') = Len(inv) + 1
                /\ SubSeq(inv', 1, Len(inv)) = inv
                /\ inv'[Len(inv')][1] = "Golden Key"
                /\ FlagOn(flags', "test_room_got_golden_key")
                /\ room' = "test_room"]_vars
    /\ [][(/\ HandlerRan /\ room = "test_room" /\ intent'.kind = "Get"
           /\ ~contains(intent'.s, <<"k","e","y">>))
             => (inv' = inv /\ flags' = flags /\ room' = "test_room")]_vars
    /\ [][(HandlerRan /\ intent'.kind = "Inv")
             => /\ inv' = inv /\ flags' = flags
                /\ out'[1] = "--- INVENTORY ---"
                /\ NamePresent(inv, "Golden Key") => Lists(out', GoldenKeyRow)]_vars

\* C15 witness: after the key was taken, a ShowInventory turn in test_room
\* printed the Golden Key row.
C15_ListingWitness ==
    /\ intent.kind = "Inv"
    /\ room = "test_room"
    /\ FlagOn(flags, "test_room_got_golden_key")
    /\ Len(inv) = 1
    /\ out = <<"--- INVENTORY ---", GoldenKeyRow, "------------------">>

\* The line carries no line feed at its end: the read hit the end of the
\* input or failed.
Unterminated(l) == l = <<>> \/ l[Len(l)] # "\n"

\* C16: a turn whose line read fails or hits the end of the input behaves
\* like a turn with an empty line: the handler receives Other with empty
\* text, returns the same location, leaves Inventory and Flags unchanged and
\* the loop goes on.
C16_FailedReadIsEmptyLine ==
    [][(HandlerRan /\ Unterminated(line'))
          => /\ intent' = Other(<<>>)
             /\ room' = room /\ inv' = inv /\ flags' = flags
             /\ status' = "running"]_vars

\* Text with no blank at either end and no two blanks in a row.
Clean(text) ==
    /\ text # <<>> => (text[1] \notin BlankChars /\ text[Len(text)] \notin BlankChars)
    /\ \A i \in 1..(Len(text) - 1) :
          ~(text[i] \in BlankChars /\ text[i + 1] \in BlankChars)

\* The line differs from its tokens joined by single spaces.
Respaced == line # Spaced(Tokens)

\* C17: parse_input is insensitive to the amount of whitespace: the intent
\* of a line is the intent of its whitespace-separated tokens joined with
\* single spaces, and every text payload has no leading or trailing
\* whitespace and no run of two or more whitespace characters.
C17_WhitespaceInsensitive ==
    Parsed => /\ intent = parse_input(Spaced(Tokens))
              /\ Clean(intent.s) /\ Clean(intent.t)

\* A line with doubled, leading and trailing blanks parsed to UseOn with
\* both payloads non-empty.
C17_RespacedWitness ==
    /\ Parsed /\ Respaced
    /\ line[1] \in BlankChars
    /\ \E i \in 1..(Len(line) - 1) :
          line[i] \in BlankChars /\ line[i + 1] \in BlankChars /\ i + 2 < Len(line)
                                 /\ i > 2
    /\ intent.kind = "UseOn" /\ Len(intent.s) > 3 /\ intent.t # <<>>

ChestIntent(p) ==
    \/ p.kind = "Use" /\ contains(p.s, <<"k","e","y">>)
    \/ p.kind = "UseOn" /\ contains(p.s, <<"k","e","y">>)
                        /\ contains(p.t, <<"c","h","e","s","t">>)
    \/ p.kind = "Other" /\ contains(p.s, <<"o","p","e","n">>)
                        /\ contains(p.s, <<"c","h","e","s","t">>)

\* The positions of the entries with the name.
Entries(items, name) == {i \in 1..Len(items) : items[i][1] = name}

\* The entries whose name is not the given one, in order.
Without(items, name) == SelectSeq(items, LAMBDA e : e[1] # name)

\* The chest can be opened: it has not been, and a Golden Key is held.
ChestOpens(items, fl) ==
    ~FlagOn(fl, "room_a_opened_chest") /\ NamePresent(items, "Golden Key")

\* The containers after the chest opened, from the containers before.
Opened(items, fl, items2, fl2) ==
    /\ items2 = Append(Without(items, "Golden Key"),
                       <<"Sword", "You could do some damage with this.">>)
    /\ DOMAIN fl2 = DOMAIN fl \cup {"room_a_opened_chest"}
    /\ fl2["room_a_opened_chest"]
    /\ \A f \in DOMAIN fl : f # "room_a_opened_chest" => fl2[f] = fl[f]

\* C19: the chest opens at most once per game.  Inventory has a Sword
\* exactly when room_a_opened_chest is set, it has at most one Sword, and the
\* flag is never cleared; open_chest changes state only when the flag is unset
\* and a Golden Key is held, and then removes every Golden Key, sets the flag
\* and adds one Sword; no other turn touches the Sword or the flag.
C19_ChestOpensOnce ==
    /\ [](/\ NamePresent(inv, "Sword") <=> FlagOn(flags, "room_a_opened_chest")
          /\ Cardinality(Entries(inv, "Sword")) <= 1
          /\ LET c == open_chest(inv, flags)
             IN  IF ChestOpens(inv, flags)
                 THEN Opened(inv, flags, c.inv, c.flags)
                 ELSE c.inv = inv /\ c.flags = flags)
    /\ [][FlagOn(flags, "room_a_opened_chest")
             => FlagOn(flags', "room_a_opened_chest")]_vars
    /\ [][(HandlerRan /\ room = "room_a" /\ ChestIntent(intent'))
             => IF ChestOpens(inv, flags)
                THEN Opened(inv, flags, inv', flags')
                ELSE inv' = inv /\ flags' = flags]_vars
    /\ [][(HandlerRan /\ ~(room = "room_a" /\ ChestIntent(intent')))
             => /\ Entries(inv', "Sword") = Entries(inv, "Sword")
                /\ FlagOn(flags', "room_a_opened_chest")
                     <=> FlagOn(flags, "room_a_opened_chest")]_vars

\* A chest intent in room_a after the chest opened: one Sword, the flag set
\* and no Golden Key left.
C19_OpenedWitness ==
    /\ room = "room_a" /\ status = "running"
    /\ FlagOn(flags, "room_a_opened_chest")
    /\ Cardinality(Entries(inv, "Sword")) = 1
    /\ ~NamePresent(inv, "Golden Key")
    /\ ChestIntent(intent)
    /\ turns >= 4

\* The turn is one of the two that lead to another location.
Moves ==
    \/ room = "test_room" /\ intent'.kind = "North"
    \/ room = "room_a" /\ intent'.kind = "South"

\* C20: the location changes only on North in test_room (to room_a) and on
\* South in room_a (to test_room); every other intent leaves the location as
\* it is, and the two movement turns as well as Look and ShowInventory turns
\* leave Inventory and Flags unchanged.
C20_LocationFrame ==
    /\ [][(HandlerRan /\ room = "test_room" /\ intent'.kind = "North")
             => room' = "room_a"]_vars
    /\ [][(HandlerRan /\ room = "room_a" /\ intent'.kind = "South")
             => room' = "test_room"]_vars
    /\ [][(HandlerRan /\ ~Moves) => room' = room]_vars
    /\ [][(HandlerRan /\ (Moves \/ intent'.kind \in {"Look", "Inv"}))
             => (inv' = inv /\ flags' = flags)]_vars

\* North typed in room_a with the key in hand: the game stays in room_a and
\* keeps the key.
C20_StayWitness ==
    /\ room = "room_a" /\ intent.kind = "North" /\ turns >= 3
    /\ NamePresent(inv, "Golden Key")
    /\ FlagOn(flags, "test_room_got_golden_key")
    /\ status = "running"

=============================================================================
